---- MODULE Spec2Model ----
(***************************************************************************)
(* Model of the AIAnalysis workflow component                              *)
(* (src/src/components/AIAnalysis.tsx).                                    *)
(*                                                                         *)
(* The component keeps five pieces of React state (selectedImage,          *)
(* imagePreview, analyzing, analysisResult, analysisType), receives a      *)
(* read-only crop record and an onClose callback, and starts two kinds of  *)
(* asynchronous work: FileReader reads (handleImageUpload) and the 3000 ms *)
(* timer of simulateAIAnalysis.  The operations a user can perform are     *)
(* exactly the controls the render function offers in the current state.   *)
(***************************************************************************)
EXTENDS Integers, Sequences, FiniteSets, TLC

----------------------------------------------------------------------------
(* Bounds of the model *)

\* number of distinct files the user can pick
MaxFiles == 2
\* FileReader reads of one file that may be pending at the same time
MaxReads == 1
\* Math.random() is modelled as a fraction k / RandDenom with 0 <= k < RandDenom
RandDenom == 100
\* the synthesizer specification draws SynthSteps + 1 evenly spaced fractions
SynthSteps == 3

----------------------------------------------------------------------------
(* Program constants *)

HealthScoreSpan == 30
HealthScoreBase == 70
ConfidenceSpan == 20
ConfidenceBase == 80
PriceSpan == 50
PriceBase == 25
LevelCount == 3

Levels == <<"Low", "Medium", "High">>
Diseases == <<"Leaf Blight", "Powdery Mildew">>
Recommendations ==
    << "Increase watering frequency by 20%",
       "Apply organic fertilizer rich in nitrogen",
       "Monitor for pest activity in the next 7 days",
       "Consider companion planting with marigolds",
       "Harvest within 2-3 weeks for optimal quality" >>
BestHarvestTime == "Next 2-3 weeks"
WeatherImpact == "Favorable conditions expected"

AnalysisTypes == {"disease", "health", "market"}

----------------------------------------------------------------------------
(* Values *)

Files == 1..MaxFiles
\* e.target.files?.[0] is undefined when the picker delivers no file
NoFile == 0
\* useState<File | null>(null)
NoImage == 0
\* useState<string>('')
EmptyPreview == << >>
\* useState<AnalysisResult | null>(null)
NoResult == [null |-> TRUE]
\* crop prop: absent, a record without image_url, a record with image_url
NoCrop == [null |-> TRUE]
Crops == { NoCrop,
           [name |-> "Wheat", image_url |-> ""],
           [name |-> "Wheat", image_url |-> "wheat.jpg"] }

\* The data URL a FileReader produces for a file: a non-empty string that
\* encodes the file's content.
readAsDataURL(file) == << file >>

\* no run committed in the last operation
NoCommit == [null |-> TRUE]
\* no file was handed to the browser in the last operation
NoDownload == [null |-> TRUE]

\* crop?.image_url as a condition
HasCropImage(c) == c # NoCrop /\ c.image_url # ""

VARIABLES
    crop,            \* the crop prop (read-only)
    mounted,         \* the component is rendered by its host
    selectedImage,
    imagePreview,
    analyzing,
    analysisResult,
    analysisType,
    timers,          \* pending setTimeout callbacks of simulateAIAnalysis
    readers,         \* pending FileReader reads, per file
    lastOp,          \* the last operation or callback that happened
    lastFile,        \* the file that operation was about, if any
    lastCommit,      \* what the commit of a run drew and whether it replaced
                     \* a result, when the last operation was that commit
    download         \* the file handed to the browser by the last operation,
                     \* if any

vars == << crop, mounted, selectedImage, imagePreview, analyzing,
           analysisResult, analysisType, timers, readers, lastOp, lastFile,
           lastCommit, download >>

state == << selectedImage, imagePreview, analyzing, analysisResult, analysisType >>

----------------------------------------------------------------------------
(* Result synthesizer: lines 56-80.  Each argument is one Math.random()     *)
(* draw k, standing for the real number k / RandDenom.                      *)

\* Math.floor(Math.random() * n)
FloorTimes(k, n) == (k * n) \div RandDenom

\* Math.random() > 0.7
Above07(k) == k * 10 > 7 * RandDenom

\* mutant: the "+ 70" of line 57 is missing
healthScoreOf_NoBase(k) == FloorTimes(k, HealthScoreSpan)
healthScoreOf(k) == FloorTimes(k, HealthScoreSpan) + HealthScoreBase
detectedOf(k) == Above07(k)
diseasesOf(k) == IF Above07(k) THEN Diseases ELSE << >>
confidenceOf(k) == FloorTimes(k, ConfidenceSpan) + ConfidenceBase
expectedPriceOf(k) == FloorTimes(k, PriceSpan) + PriceBase
levelOf(k) == Levels[FloorTimes(k, LevelCount) + 1]
soilHealthOf(k) == FloorTimes(k, HealthScoreSpan) + HealthScoreBase

\* r is the sequence of the eight draws in evaluation order
mockResult(r) ==
    [ healthScore |-> healthScoreOf(r[1]),
      diseaseDetection |->
          [ detected |-> detectedOf(r[2]),
            diseases |-> diseasesOf(r[3]),
            confidence |-> confidenceOf(r[4]) ],
      recommendations |-> Recommendations,
      marketPrediction |->
          [ expectedPrice |-> expectedPriceOf(r[5]),
            demandLevel |-> levelOf(r[6]),
            bestHarvestTime |-> BestHarvestTime ],
      environmentalFactors |->
          [ soilHealth |-> soilHealthOf(r[7]),
            weatherImpact |-> WeatherImpact,
            pestRisk |-> levelOf(r[8]) ] ]

DrawCount == 8
\* Values of one Math.random() call in the workflow specification: the low
\* end, the middle and the high end of [0, 1).
RandomDraws == {0, RandDenom \div 2, RandDenom - 1}
\* Draw sequences of one run in the workflow specification: the calls at odd
\* positions share one value and the calls at even positions another, so
\* that consecutive calls (lines 59 and 60 among them) vary independently.
WorkflowDraws ==
    { [i \in 1..DrawCount |-> IF i % 2 = 1 THEN a ELSE b] :
          a \in RandomDraws, b \in RandomDraws }
\* Draw sequences of one run in the synthesizer specification: the eight
\* calls are independent, each taking evenly spaced values from the low end
\* to the high end of [0, 1).
SynthValues == { (i * (RandDenom - 1)) \div SynthSteps : i \in 0..SynthSteps }
SynthDraws == [1..DrawCount -> SynthValues]

----------------------------------------------------------------------------
(* Render conditions: which controls the component offers *)

\* mutant: the crop's image reference does not enable the button
AnalyzeDisabled_IgnoresCrop == analyzing \/ selectedImage = NoImage
\* mutant: the button is disabled only while analyzing
AnalyzeDisabled_NoImageCheck == analyzing
\* mutant: the button is disabled only when there is no image
AnalyzeDisabled_NoAnalyzingCheck ==
    selectedImage = NoImage /\ ~HasCropImage(crop)
\* line 222: disabled={analyzing || (!selectedImage && !crop?.image_url)}
AnalyzeDisabled ==
    analyzing \/ (selectedImage = NoImage /\ ~HasCropImage(crop))

\* line 178: imagePreview ? <Remove Image button> : <file input>
RemoveOffered == mounted /\ imagePreview # EmptyPreview
UploadOffered == mounted /\ imagePreview = EmptyPreview

\* mutant: the Export Report button is rendered unconditionally
ExportOffered_Always == mounted
\* line 346: {analysisResult && <Export Report button>}
ExportOffered == mounted /\ analysisResult # NoResult

----------------------------------------------------------------------------
Init ==
    /\ crop \in Crops
    /\ mounted = TRUE
    /\ selectedImage = NoImage
    /\ imagePreview = EmptyPreview
    /\ analyzing = FALSE
    /\ analysisResult = NoResult
    /\ analysisType = "disease"
    /\ timers = 0
    /\ readers = [f \in Files |-> 0]
    /\ lastOp = "init"
    /\ lastFile = NoFile
    /\ lastCommit = NoCommit
    /\ download = NoDownload

\* handleImageUpload, lines 37-47
handleImageUpload(file) ==
    /\ UploadOffered
    /\ IF file # NoFile
       THEN /\ readers[file] < MaxReads
            /\ selectedImage' = file
            /\ readers' = [readers EXCEPT ![file] = @ + 1]
            /\ lastOp' = "selectImage"
       ELSE /\ UNCHANGED << selectedImage, readers >>
            /\ lastOp' = "selectNoFile"
    /\ lastFile' = file
    /\ lastCommit' = NoCommit
    /\ download' = NoDownload
    /\ UNCHANGED << crop, mounted, imagePreview, analyzing, analysisResult,
                    analysisType, timers >>

\* mutant: a read that completes after the close still stores its preview
readerOnload_AfterUnmount(file) ==
    /\ readers[file] > 0
    /\ readers' = [readers EXCEPT ![file] = @ - 1]
    /\ imagePreview' = readAsDataURL(file)
    /\ lastOp' = IF mounted THEN "readerLoad" ELSE "readerLoadDropped"
    /\ lastFile' = file
    /\ lastCommit' = NoCommit
    /\ download' = NoDownload
    /\ UNCHANGED << crop, mounted, selectedImage, analyzing, analysisResult,
                    analysisType, timers >>

\* reader.onload, lines 42-44: the read of file succeeded
readerOnload(file) ==
    /\ readers[file] > 0
    /\ readers' = [readers EXCEPT ![file] = @ - 1]
    /\ IF mounted
       THEN /\ imagePreview' = readAsDataURL(file)
            /\ lastOp' = "readerLoad"
       ELSE /\ UNCHANGED imagePreview
            /\ lastOp' = "readerLoadDropped"
    /\ lastFile' = file
    /\ lastCommit' = NoCommit
    /\ download' = NoDownload
    /\ UNCHANGED << crop, mounted, selectedImage, analyzing, analysisResult,
                    analysisType, timers >>

\* The read of file failed: the reader has no onerror handler (lines 41-45)
readerError(file) ==
    /\ readers[file] > 0
    /\ readers' = [readers EXCEPT ![file] = @ - 1]
    /\ lastOp' = "readerError"
    /\ lastFile' = file
    /\ lastCommit' = NoCommit
    /\ download' = NoDownload
    /\ UNCHANGED << crop, mounted, selectedImage, imagePreview, analyzing,
                    analysisResult, analysisType, timers >>

\* mutant: removing the image also abandons the run in flight
removeImage_CancelsRun ==
    /\ RemoveOffered
    /\ selectedImage' = NoImage
    /\ imagePreview' = EmptyPreview
    /\ analyzing' = FALSE
    /\ timers' = 0
    /\ lastOp' = "removeImage"
    /\ lastFile' = NoFile
    /\ lastCommit' = NoCommit
    /\ download' = NoDownload
    /\ UNCHANGED << crop, mounted, analysisResult, analysisType, readers >>

\* Remove Image button, lines 185-193
removeImage ==
    /\ RemoveOffered
    /\ selectedImage' = NoImage
    /\ imagePreview' = EmptyPreview
    /\ lastOp' = "removeImage"
    /\ lastFile' = NoFile
    /\ lastCommit' = NoCommit
    /\ download' = NoDownload
    /\ UNCHANGED << crop, mounted, analyzing, analysisResult, analysisType,
                    timers, readers >>

\* mutant: changing the analysis type also drops the stored result
setAnalysisType_ResetsResult(type) ==
    /\ mounted
    /\ analysisType' = type
    /\ analysisResult' = NoResult
    /\ lastOp' = "selectType"
    /\ lastFile' = NoFile
    /\ lastCommit' = NoCommit
    /\ download' = NoDownload
    /\ UNCHANGED << crop, mounted, selectedImage, imagePreview, analyzing,
                    timers, readers >>

\* analysis type radio, lines 158-164
setAnalysisType(type) ==
    /\ mounted
    /\ analysisType' = type
    /\ lastOp' = "selectType"
    /\ lastFile' = NoFile
    /\ lastCommit' = NoCommit
    /\ download' = NoDownload
    /\ UNCHANGED << crop, mounted, selectedImage, imagePreview, analyzing,
                    analysisResult, timers, readers >>

\* Analyze button (lines 220-223) and simulateAIAnalysis up to its await
\* (lines 49-53).  A click on the disabled button runs no handler.
simulateAIAnalysis ==
    /\ mounted
    /\ IF AnalyzeDisabled
       THEN /\ lastOp' = "runRejected"
            /\ UNCHANGED << analyzing, timers >>
       ELSE /\ analyzing' = TRUE
            /\ timers' = timers + 1
            /\ lastOp' = "runAnalysis"
    /\ lastFile' = NoFile
    /\ lastCommit' = NoCommit
    /\ download' = NoDownload
    /\ UNCHANGED << crop, mounted, selectedImage, imagePreview, analysisResult,
                    analysisType, readers >>

\* mutant: the callback stores its result whether or not the component is
\* still mounted
timerElapsed_AlwaysCommits(draws) ==
    /\ timers > 0
    /\ timers' = timers - 1
    /\ \E r \in draws :
          /\ analysisResult' = mockResult(r)
          /\ analyzing' = FALSE
          /\ lastOp' = IF mounted THEN "timerCommit" ELSE "timerDiscard"
          /\ lastCommit' = [draws |-> r, replaced |-> analysisResult # NoResult]
    /\ lastFile' = NoFile
    /\ download' = NoDownload
    /\ UNCHANGED << crop, mounted, selectedImage, imagePreview, analysisType,
                    readers >>

\* mutant: a run of type health skips the disease detection
timerElapsed_TypeDependent(draws) ==
    /\ timers > 0
    /\ timers' = timers - 1
    /\ IF mounted
       THEN \E r \in draws :
               /\ analysisResult' =
                     IF analysisType = "health"
                     THEN [ mockResult(r) EXCEPT
                              !.diseaseDetection.detected = FALSE,
                              !.diseaseDetection.diseases = << >> ]
                     ELSE mockResult(r)
               /\ analyzing' = FALSE
               /\ lastOp' = "timerCommit"
               /\ lastCommit' =
                     [draws |-> r, replaced |-> analysisResult # NoResult]
       ELSE /\ UNCHANGED << analysisResult, analyzing >>
            /\ lastOp' = "timerDiscard"
            /\ lastCommit' = NoCommit
    /\ lastFile' = NoFile
    /\ download' = NoDownload
    /\ UNCHANGED << crop, mounted, selectedImage, imagePreview, analysisType,
                    readers >>

timerElapsed_PartialUpdate(draws) ==
    /\ timers > 0
    /\ timers' = timers - 1
    /\ IF mounted
       THEN \E r \in draws :
               /\ analysisResult' =
                     IF analysisResult # NoResult
                     THEN [ mockResult(r) EXCEPT
                              !.healthScore = analysisResult.healthScore ]
                     ELSE mockResult(r)
               /\ analyzing' = FALSE
               /\ lastOp' = "timerCommit"
               /\ lastCommit' =
                     [draws |-> r, replaced |-> analysisResult # NoResult]
       ELSE /\ UNCHANGED << analysisResult, analyzing >>
            /\ lastOp' = "timerDiscard"
            /\ lastCommit' = NoCommit
    /\ lastFile' = NoFile
    /\ download' = NoDownload
    /\ UNCHANGED << crop, mounted, selectedImage, imagePreview, analysisType,
                    readers >>

\* simulateAIAnalysis after the await, lines 53-83; draws is the set of
\* sequences the eight Math.random() calls may return.  The state setters
\* of a component that is no longer mounted store nothing.
timerElapsed(draws) ==
    /\ timers > 0
    /\ timers' = timers - 1
    /\ IF mounted
       THEN \E r \in draws :
               /\ analysisResult' = mockResult(r)
               /\ analyzing' = FALSE
               /\ lastOp' = "timerCommit"
               /\ lastCommit' =
                     [draws |-> r, replaced |-> analysisResult # NoResult]
       ELSE /\ UNCHANGED << analysisResult, analyzing >>
            /\ lastOp' = "timerDiscard"
            /\ lastCommit' = NoCommit
    /\ lastFile' = NoFile
    /\ download' = NoDownload
    /\ UNCHANGED << crop, mounted, selectedImage, imagePreview, analysisType,
                    readers >>

analysisTimer == timerElapsed(WorkflowDraws)

\* the same callback with eight independent draws
synthTimer == timerElapsed(SynthDraws)

----------------------------------------------------------------------------
(* JSON text of the export, line 349.  A document is modelled by its        *)
(* syntax tree: a number is its decimal digits, a boolean the literal true  *)
(* or false, a string its characters, an array its elements in order, an    *)
(* object its key/value members in order.  Indentation carries no value.    *)

DigitChars == << "0", "1", "2", "3", "4", "5", "6", "7", "8", "9" >>

\* the decimal text of a non-negative integer
RECURSIVE NumberText(_)
NumberText(n) ==
    IF n < 10 THEN << DigitChars[n + 1] >>
    ELSE Append(NumberText(n \div 10), DigitChars[(n % 10) + 1])

JSONnumber(n) == << "number", NumberText(n) >>

\* JSON.stringify(null) is the literal null
JSONnull == << "literal", "null" >>

JSONboolean(b) == << "literal", IF b THEN "true" ELSE "false" >>
JSONstring(str) == << "string", str >>
JSONstrings(seq) == << "array", [i \in 1..Len(seq) |-> JSONstring(seq[i])] >>
JSONobject(members) == << "object", members >>

\* mutant: the document omits the detected member
JSONstringify_DropsDetected(res) ==
    IF res = NoResult THEN JSONnull ELSE
    JSONobject(<<
      << "healthScore", JSONnumber(res.healthScore) >>,
      << "diseaseDetection", JSONobject(<<
           << "diseases", JSONstrings(res.diseaseDetection.diseases) >>,
           << "confidence", JSONnumber(res.diseaseDetection.confidence) >> >>) >>,
      << "recommendations", JSONstrings(res.recommendations) >>,
      << "marketPrediction", JSONobject(<<
           << "expectedPrice", JSONnumber(res.marketPrediction.expectedPrice) >>,
           << "demandLevel", JSONstring(res.marketPrediction.demandLevel) >>,
           << "bestHarvestTime",
              JSONstring(res.marketPrediction.bestHarvestTime) >> >>) >>,
      << "environmentalFactors", JSONobject(<<
           << "soilHealth", JSONnumber(res.environmentalFactors.soilHealth) >>,
           << "weatherImpact",
              JSONstring(res.environmentalFactors.weatherImpact) >>,
           << "pestRisk",
              JSONstring(res.environmentalFactors.pestRisk) >> >>) >> >>)

\* JSON.stringify(analysisResult, null, 2): the literal null for a null
\* state, otherwise the members in the order the object literal of lines
\* 56-80 creates them
JSONstringify(res) ==
    IF res = NoResult THEN JSONnull ELSE
    JSONobject(<<
      << "healthScore", JSONnumber(res.healthScore) >>,
      << "diseaseDetection", JSONobject(<<
           << "detected", JSONboolean(res.diseaseDetection.detected) >>,
           << "diseases", JSONstrings(res.diseaseDetection.diseases) >>,
           << "confidence", JSONnumber(res.diseaseDetection.confidence) >> >>) >>,
      << "recommendations", JSONstrings(res.recommendations) >>,
      << "marketPrediction", JSONobject(<<
           << "expectedPrice", JSONnumber(res.marketPrediction.expectedPrice) >>,
           << "demandLevel", JSONstring(res.marketPrediction.demandLevel) >>,
           << "bestHarvestTime",
              JSONstring(res.marketPrediction.bestHarvestTime) >> >>) >>,
      << "environmentalFactors", JSONobject(<<
           << "soilHealth", JSONnumber(res.environmentalFactors.soilHealth) >>,
           << "weatherImpact",
              JSONstring(res.environmentalFactors.weatherImpact) >>,
           << "pestRisk",
              JSONstring(res.environmentalFactors.pestRisk) >> >>) >> >>)

\* crop?.name || 'crop', line 354
CropName(c) == IF c # NoCrop /\ c.name # "" THEN c.name ELSE "crop"

\* new Date().toISOString().split('T')[0], line 354: the day of the export
ExportDates == { "2026-11-04", "2026-11-05" }

\* the download name of line 354
DownloadName(c, date) == << "ai-analysis-", CropName(c), "-", date, ".json" >>

\* Export Report button, lines 346-362
exportReport ==
    /\ ExportOffered
    /\ lastOp' = "export"
    /\ lastFile' = NoFile
    /\ lastCommit' = NoCommit
    /\ \E date \in ExportDates :
          download' = [ name |-> DownloadName(crop, date),
                        content |-> JSONstringify(analysisResult) ]
    /\ UNCHANGED << crop, mounted, selectedImage, imagePreview, analyzing,
                    analysisResult, analysisType, timers, readers >>

\* onClose (lines 118-123, 339-345): the host dismisses the workflow, which
\* unmounts the component and drops its state.
onClose ==
    /\ mounted
    /\ mounted' = FALSE
    /\ selectedImage' = NoImage
    /\ imagePreview' = EmptyPreview
    /\ analyzing' = FALSE
    /\ analysisResult' = NoResult
    /\ lastOp' = "close"
    /\ lastFile' = NoFile
    /\ lastCommit' = NoCommit
    /\ download' = NoDownload
    /\ UNCHANGED << crop, analysisType, timers, readers >>

Next ==
    \/ \E file \in Files \cup {NoFile} : handleImageUpload(file)
    \/ \E file \in Files : readerOnload(file)
    \/ \E file \in Files : readerError(file)
    \/ removeImage
    \/ \E type \in AnalysisTypes : setAnalysisType(type)
    \/ simulateAIAnalysis
    \/ analysisTimer
    \/ exportReport
    \/ onClose

Spec == Init /\ [][Next]_vars

\* The synthesizer on its own: one run of the analysis from a fresh
\* component, its eight draws independent.
SynthNext ==
    \/ (analysisResult = NoResult /\ simulateAIAnalysis)
    \/ synthTimer

SynthSpec == Init /\ [][SynthNext]_vars

\* The workflow with the timer of line 53 firing: a pending setTimeout
\* callback is eventually run by the event loop.
LiveSpec == Spec /\ WF_vars(analysisTimer)

\* The same workflow and fairness with the eight calls of a run returning
\* one common value, for the properties that do not read the result's
\* fields.
UniformDraws == { [i \in 1..DrawCount |-> a] : a \in RandomDraws }

runTimer == timerElapsed(UniformDraws)

RunNext ==
    \/ \E file \in Files \cup {NoFile} : handleImageUpload(file)
    \/ \E file \in Files : readerOnload(file)
    \/ \E file \in Files : readerError(file)
    \/ removeImage
    \/ \E type \in AnalysisTypes : setAnalysisType(type)
    \/ simulateAIAnalysis
    \/ runTimer
    \/ exportReport
    \/ onClose

RunSpec == Init /\ [][RunNext]_vars /\ WF_vars(runTimer)

----------------------------------------------------------------------------
(* Vocabulary of the workflow states *)

ImageAvailable == selectedImage # NoImage \/ HasCropImage(crop)
Idle == ~ImageAvailable /\ ~analyzing /\ analysisResult = NoResult
ImageReady == ImageAvailable /\ ~analyzing /\ analysisResult = NoResult
Analyzing == analyzing
Complete == ~analyzing /\ analysisResult # NoResult

\* the step is a click on the Analyze button
RunStep == lastOp' \in {"runAnalysis", "runRejected"}

----------------------------------------------------------------------------
\* C1: an analysis run starts only in a step taken while a user-selected
\* image or a crop image reference is present; a click on Analyze without
\* any image is rejected and changes no state of the component, so an Idle
\* component stays Idle (not analyzing, no result).
C1_RunNeedsImage ==
    [][ /\ (lastOp' = "runAnalysis" \/ timers' > timers) => ImageAvailable
        /\ (RunStep /\ ~ImageAvailable) =>
              /\ lastOp' = "runRejected"
              /\ UNCHANGED << state, timers >>
              /\ (Idle => Idle') ]_vars

\* an Analyze click was rejected in Idle
C1_Witness == lastOp = "runRejected" /\ mounted /\ Idle /\ timers = 0

----------------------------------------------------------------------------
\* C2: at most one analysis delay is pending at any time: a click on Analyze
\* while the component is analyzing starts no second run.
C2_AtMostOneInFlight == timers <= 1 /\ (mounted => (analyzing <=> timers = 1))

\* an Analyze click was rejected while a run was in flight
C2_Witness == lastOp = "runRejected" /\ mounted /\ analyzing /\ timers = 1

----------------------------------------------------------------------------
----------------------------------------------------------------------------
\* C4 (as claimed): in every stored result, diseases is non-empty exactly
\* when detected is true, and a non-empty diseases is the two-name list.
C4_DiseasesIffDetected ==
    analysisResult # NoResult =>
        /\ (analysisResult.diseaseDetection.diseases # << >>)
              <=> analysisResult.diseaseDetection.detected
        /\ analysisResult.diseaseDetection.diseases # << >>
              => analysisResult.diseaseDetection.diseases = Diseases

----------------------------------------------------------------------------
\* C5: every stored result has an integer healthScore and soilHealth in
\* 70..100, an integer confidence in 80..100, an integer expectedPrice in
\* 25..75, and demandLevel and pestRisk among Low, Medium, High.
C5_ResultRanges ==
    analysisResult # NoResult =>
        /\ analysisResult.healthScore \in Int
        /\ 70 <= analysisResult.healthScore
        /\ analysisResult.healthScore <= 100
        /\ analysisResult.environmentalFactors.soilHealth \in Int
        /\ 70 <= analysisResult.environmentalFactors.soilHealth
        /\ analysisResult.environmentalFactors.soilHealth <= 100
        /\ analysisResult.diseaseDetection.confidence \in Int
        /\ 80 <= analysisResult.diseaseDetection.confidence
        /\ analysisResult.diseaseDetection.confidence <= 100
        /\ analysisResult.marketPrediction.expectedPrice \in Int
        /\ 25 <= analysisResult.marketPrediction.expectedPrice
        /\ analysisResult.marketPrediction.expectedPrice <= 75
        /\ analysisResult.marketPrediction.demandLevel
              \in {"Low", "Medium", "High"}
        /\ analysisResult.environmentalFactors.pestRisk
              \in {"Low", "Medium", "High"}

\* a re-run committed a result made of the highest draws and a middle one,
\* after the image had been changed
C5_Witness ==
    /\ lastOp = "timerCommit"
    /\ selectedImage # NoImage
    /\ analysisResult # NoResult
    /\ analysisResult.healthScore = 99
    /\ analysisResult.environmentalFactors.soilHealth = 99
    /\ analysisResult.marketPrediction.expectedPrice = 74
    /\ analysisResult.marketPrediction.demandLevel = "Medium"

----------------------------------------------------------------------------
\* C6 (as claimed): selecting a file in Complete leaves the component in
\* ImageReady: the file is the selected image and the prior result is gone.
C6_SelectDiscardsResult ==
    [][ (Complete /\ lastOp' = "selectImage") =>
            (selectedImage' = lastFile' /\ ImageReady') ]_vars

----------------------------------------------------------------------------
\* C7 (as claimed): with no crop image reference, Remove Image leaves the
\* component without selected image, without preview and without result.
C7_RemoveClearsResult ==
    (lastOp = "removeImage" /\ ~HasCropImage(crop)) =>
        /\ selectedImage = NoImage
        /\ imagePreview = EmptyPreview
        /\ analysisResult = NoResult

----------------------------------------------------------------------------
\* C8 (as claimed): an export is possible, and happens, only in Complete:
\* a result is stored and no analysis is in flight.
C8_ExportOnlyInComplete ==
    /\ ENABLED exportReport => Complete
    /\ lastOp = "export" => Complete

\* C8 (amended): an export is possible exactly when the component is open
\* and a result is stored, whether or not an analysis is in flight; with no
\* result stored it is not possible.
C8_ExportIffResult ==
    /\ ENABLED exportReport <=> (mounted /\ analysisResult # NoResult)
    /\ lastOp = "export" => analysisResult # NoResult

\* a result was exported while a re-run was in flight
C8_Witness == lastOp = "export" /\ analyzing /\ analysisResult # NoResult

----------------------------------------------------------------------------
\* The invariants the data model gives an AnalysisResult
WellFormed(res) ==
    /\ res # NoResult
    /\ res.healthScore \in 70..100
    /\ res.diseaseDetection.detected \in BOOLEAN
    /\ (res.diseaseDetection.diseases # << >>) <=> res.diseaseDetection.detected
    /\ res.diseaseDetection.confidence \in 80..100
    /\ res.recommendations = Recommendations
    /\ res.marketPrediction.expectedPrice \in 25..75
    /\ res.marketPrediction.demandLevel \in {"Low", "Medium", "High"}
    /\ res.marketPrediction.bestHarvestTime = BestHarvestTime
    /\ res.environmentalFactors.soilHealth \in 70..100
    /\ res.environmentalFactors.weatherImpact = WeatherImpact
    /\ res.environmentalFactors.pestRisk \in {"Low", "Medium", "High"}

\* Under LiveSpec every run of an open component ends: the component is
\* closed or the run commits a result and clears the in-flight flag.
RunEventuallyCommits ==
    (mounted /\ analyzing) ~>
        (~mounted \/ (~analyzing /\ analysisResult # NoResult))

\* C9 (as claimed): for a component built with a crop image reference, when
\* the delay of an accepted run elapses in the open component, it is in
\* Complete with a well-formed result.
C9_RunCompletesWellFormed ==
    (HasCropImage(crop) /\ mounted /\ lastOp = "timerCommit") =>
        (~analyzing /\ WellFormed(analysisResult))

----------------------------------------------------------------------------
\* C10 (as claimed): after the read of a file failed, the component retains
\* nothing of that file: it is the selected image only if its preview has
\* been decoded; an Idle component is Idle again and Analyze stays disabled.
C10_FailedDecodeRetainsNothing ==
    (lastOp = "readerError" /\ mounted /\ readers[lastFile] = 0
        /\ imagePreview # readAsDataURL(lastFile)) =>
            selectedImage # lastFile

----------------------------------------------------------------------------
\* C11: in every state of the open component each analysis type can be
\* selected; the selection stores the type and leaves selected image,
\* preview, in-flight flag, result and pending work as they were; selecting
\* the type already stored changes nothing of the state; a fresh component
\* has type disease.
C11_TypeSelectionFrame ==
    /\ [](mounted => \A type \in AnalysisTypes : ENABLED setAnalysisType(type))
    /\ [](lastOp = "init" => analysisType = "disease")
    /\ [][ lastOp' = "selectType" =>
             /\ analysisType' \in AnalysisTypes
             /\ UNCHANGED << selectedImage, imagePreview, analyzing,
                             analysisResult, timers, readers, mounted >>
             /\ (analysisType' = analysisType => UNCHANGED state) ]_vars

\* a type other than the default was selected while a re-run was in flight
C11_Witness ==
    /\ lastOp = "selectType"
    /\ analysisType = "market"
    /\ analyzing
    /\ analysisResult # NoResult
    /\ imagePreview # EmptyPreview

----------------------------------------------------------------------------
\* C12: a fresh component has no selected image, no preview, no result and
\* is not analyzing.  With no crop record, or one without image reference,
\* it is Idle and Analyze is disabled; with a crop record that carries an
\* image reference it is ImageReady and Analyze is enabled.
C12_InitialState ==
    lastOp = "init" =>
        /\ mounted
        /\ selectedImage = NoImage
        /\ imagePreview = EmptyPreview
        /\ timers = 0
        /\ IF crop # NoCrop /\ crop.image_url # ""
           THEN ImageReady /\ ~AnalyzeDisabled
           ELSE Idle /\ AnalyzeDisabled

\* a fresh component whose crop record carries an image reference
C12_Witness ==
    /\ lastOp = "init"
    /\ crop # NoCrop
    /\ crop.image_url # ""
    /\ ImageReady
    /\ ENABLED (simulateAIAnalysis /\ lastOp' = "runAnalysis")

----------------------------------------------------------------------------
\* C13: removing the image or selecting a type while a run is in flight
\* leaves the run in flight (the flag stays set, its timer stays pending),
\* and, with the timer firing, the run then commits its result unless the
\* workflow is closed first.
C13_OnlyCloseCancels ==
    /\ [][ (analyzing /\ lastOp' \in {"removeImage", "selectType"}) =>
              (analyzing' /\ timers > 0 /\ timers' = timers) ]_vars
    /\ (mounted /\ analyzing /\ lastOp \in {"removeImage", "selectType"})
          ~> (~mounted \/ (lastOp = "timerCommit" /\ Complete))

\* a first run committed after its image had been removed during the delay
C13_Witness ==
    /\ lastOp = "timerCommit"
    /\ ~HasCropImage(crop)
    /\ selectedImage = NoImage
    /\ lastCommit # NoCommit
    /\ ~lastCommit.replaced
    /\ Complete

----------------------------------------------------------------------------
\* C14: the result a run stores is determined by the random draws the run
\* received alone: whatever analysis type is stored when the run commits
\* (selected before the run or during the delay), the stored record is the
\* synthesizer's record for those draws, so two runs with the same draws and
\* different types store identical records.
C14_TypeDoesNotInfluenceResult ==
    \A type \in AnalysisTypes :
        (lastOp = "timerCommit" /\ analysisType = type) =>
            analysisResult = mockResult(lastCommit.draws)

\* a run of type health committed the record of the highest draws, the
\* record a run of the default type stores for them
C14_Witness ==
    /\ lastOp = "timerCommit"
    /\ analysisType = "health"
    /\ lastCommit.draws = [i \in 1..DrawCount |-> RandDenom - 1]
    /\ analysisResult = mockResult([i \in 1..DrawCount |-> RandDenom - 1])
    /\ analysisResult.diseaseDetection.detected

----------------------------------------------------------------------------
----------------------------------------------------------------------------
(* Reading a JSON document back: what JSON.parse makes of the syntax tree *)

DigitValue(ch) == CHOOSE d \in 0..9 : DigitChars[d + 1] = ch

\* the integer a decimal text denotes
RECURSIVE TextNumber(_)
TextNumber(text) ==
    IF Len(text) = 0 THEN 0
    ELSE 10 * TextNumber(SubSeq(text, 1, Len(text) - 1))
            + DigitValue(text[Len(text)])

RECURSIVE JSONparse(_)
JSONparse(doc) ==
    CASE doc[1] = "number" -> TextNumber(doc[2])
      [] doc[1] = "literal" /\ doc[2] = "null" -> NoResult
      [] doc[1] = "literal" /\ doc[2] # "null" -> (doc[2] = "true")
      [] doc[1] = "string" -> doc[2]
      [] doc[1] = "array" -> [i \in 1..Len(doc[2]) |-> JSONparse(doc[2][i])]
      [] doc[1] = "object" ->
            [ key \in { doc[2][i][1] : i \in 1..Len(doc[2]) } |->
                JSONparse(doc[2][CHOOSE i \in 1..Len(doc[2]) :
                                     doc[2][i][1] = key][2]) ]

\* C16: an export changes nothing of the component's state (selected image,
\* preview, analysis type, in-flight flag, result, pending work), and the
\* document it hands to the browser, read back, has exactly the field
\* values of the result stored at that moment.
C16_ExportFrameAndRoundTrip ==
    /\ [][ lastOp' = "export" =>
             /\ ExportOffered
             /\ UNCHANGED << state, timers, readers, mounted, crop >> ]_vars
    /\ [](lastOp = "export" =>
             /\ download # NoDownload
             /\ JSONparse(download.content) = analysisResult)

\* a result with detected diseases was exported while a re-run was in flight
C16_Witness ==
    /\ lastOp = "export"
    /\ download # NoDownload
    /\ analyzing
    /\ analysisResult.diseaseDetection.detected
    /\ analysisResult.diseaseDetection.diseases = Diseases
    /\ analysisResult.healthScore = 99
    /\ JSONparse(download.content).healthScore = 99

\* C17: in every reachable state of an open component, a stored result is
\* accompanied by an available image (a selected file or the crop's image
\* reference); a result with no image at all is never reached.
C17_ResultImpliesImage ==
    (mounted /\ analysisResult # NoResult) => ImageAvailable

\* C18: a non-empty preview always belongs to the currently selected image:
\* a selected image is present and the preview is the decoding of that very
\* file, whatever the order in which selections, removals and decode
\* completions interleave.
C18_PreviewOfSelectedImage ==
    imagePreview # EmptyPreview =>
        /\ selectedImage # NoImage
        /\ imagePreview = readAsDataURL(selectedImage)

\* C19: the stored result changes only at the commit of an analysis run
\* (closing the panel destroys it), and a commit replaces it wholesale:
\* every field of the stored result is the field of that run's synthesized
\* record, also when a previous result existed; neither the start of a run,
\* nor its rejection, nor its commit changes the selected image, the
\* preview or the analysis type.
C19_ResultReplacedWholesale ==
    /\ [][ analysisResult' # analysisResult =>
             \/ /\ lastOp' = "close"
                /\ analysisResult' = NoResult
             \/ /\ lastOp' = "timerCommit"
                /\ lastCommit' # NoCommit
                /\ LET run == mockResult(lastCommit'.draws)
                   IN  /\ analysisResult'.healthScore = run.healthScore
                       /\ analysisResult'.diseaseDetection
                              = run.diseaseDetection
                       /\ analysisResult'.recommendations
                              = run.recommendations
                       /\ analysisResult'.marketPrediction
                              = run.marketPrediction
                       /\ analysisResult'.environmentalFactors
                              = run.environmentalFactors
                       /\ DOMAIN analysisResult' = DOMAIN run ]_vars
    /\ [][ lastOp' \in {"runAnalysis", "runRejected", "timerCommit"} =>
             UNCHANGED << selectedImage, imagePreview, analysisType >> ]_vars

\* a re-run started from Complete, with a file selected and previewed, has
\* committed and the stored result is that run's synthesized record
C19_Witness ==
    /\ lastOp = "timerCommit"
    /\ lastCommit # NoCommit
    /\ lastCommit.replaced
    /\ analysisResult = mockResult(lastCommit.draws)
    /\ selectedImage # NoImage
    /\ imagePreview # EmptyPreview

====
